---- MODULE Spec2Model ----
(***************************************************************************)
(* Model of the five chatbot scripts of this repository (main.py, app.py,  *)
(* app_3.py, app_4.py, new_app.py): one user turn is "user text -> model   *)
(* call #1 -> optional SQL execution -> model call #2 -> final text".      *)
(* The hosted model endpoint and the PostgreSQL store are external: their  *)
(* answers are nondeterministic choices drawn from small sets.             *)
(* Texts are sequences of one-character strings so that strip(), lower(),  *)
(* startswith(), the `in` substring test and the regular expressions of    *)
(* extract_sql are computed character by character.                        *)
(***************************************************************************)
EXTENDS Integers, Sequences, FiniteSets, TLC

\* ------------------------------------------------------------------ bounds
MaxTurns == 2
MaxToolCalls == 2

\* ------------------------------------------------------ program constants
RowCap == 100
MaxSqlLen == 2000

\* ------------------------------------------------------------- text layer
UpperCase == <<"A","B","C","D","E","F","G","H","I","J","K","L","M",
               "N","O","P","Q","R","S","T","U","V","W","X","Y","Z">>
LowerCase == <<"a","b","c","d","e","f","g","h","i","j","k","l","m",
               "n","o","p","q","r","s","t","u","v","w","x","y","z">>

lower_ch(c) ==
    IF \E i \in 1..26 : UpperCase[i] = c
    THEN LowerCase[CHOOSE i \in 1..26 : UpperCase[i] = c]
    ELSE c

upper_ch(c) ==
    IF \E i \in 1..26 : LowerCase[i] = c
    THEN UpperCase[CHOOSE i \in 1..26 : LowerCase[i] = c]
    ELSE c

\* str.lower()
lower(s) == [i \in 1..Len(s) |-> lower_ch(s[i])]

\* str.upper()
upper(s) == [i \in 1..Len(s) |-> upper_ch(s[i])]

IsSpace(c) == c \in {" ", "\n", "\t"}

RECURSIVE lstrip(_)
lstrip(s) == IF s # <<>> /\ IsSpace(Head(s)) THEN lstrip(Tail(s)) ELSE s

RECURSIVE rstrip(_)
rstrip(s) ==
    IF s # <<>> /\ IsSpace(s[Len(s)]) THEN rstrip(SubSeq(s, 1, Len(s) - 1)) ELSE s

\* str.strip()
strip(s) == rstrip(lstrip(s))

\* str.startswith(p)
startswith(s, p) == Len(s) >= Len(p) /\ SubSeq(s, 1, Len(p)) = p

\* str.endswith(p)
endswith(s, p) == Len(s) >= Len(p) /\ SubSeq(s, Len(s) - Len(p) + 1, Len(s)) = p

\* the substring test `k in s`
contains(s, k) ==
    \E i \in 1..(Len(s) - Len(k) + 1) : SubSeq(s, i, i + Len(k) - 1) = k

\* ------------------------------------------------- keyword lists of the code
\* app_4.py: the commands blocked before execution (compared with sql.lower())
Denylist == { <<"i","n","s","e","r","t">>, <<"u","p","d","a","t","e">>,
              <<"d","e","l","e","t","e">>, <<"d","r","o","p">>,
              <<"c","r","e","a","t","e">>, <<"a","l","t","e","r">>,
              <<"g","r","a","n","t">> }

\* app.py: the leading keywords accepted by extract_sql (re.IGNORECASE)
LeadKeywords == { <<"S","E","L","E","C","T">>, <<"W","I","T","H">>,
                  <<"E","X","P","L","A","I","N">>, <<"S","H","O","W">>,
                  <<"P","R","A","G","M","A">> }

\* app_3.py: the prefixes after which execute_sql_query fetches rows
FetchPrefixes == { <<"s","e","l","e","c","t">>, <<"s","h","o","w">>,
                   <<"d","e","s","c","r","i","b","e">> }

KwSelect == <<"S","E","L","E","C","T">>
\* the backquote character (the lexer of TLA+ has no string for it)
BackTick == "BACKQUOTE"
Fence == <<BackTick, BackTick, BackTick>>
FenceLang == <<"s","q","l">>

\* ------------------------------------------------------------ sample texts
Q_select == <<"S","E","L","E","C","T"," ","1">>
Q_show == <<" ","s","h","o","w"," ","x">>
Q_delete == <<"D","e","l","e","t","e"," ","t">>
Q_with_delete == <<"W","I","T","H"," ","d"," ","A","S"," ","(","D","E","L","E","T","E",
                   " ","F","R","O","M"," ","t"," ","R","E","T","U","R","N","I","N","G",
                   " ","1",")"," ","S","E","L","E","C","T"," ","1">>
Q_truncate == <<"T","R","U","N","C","A","T","E"," ","t">>
Q_prose == <<"h","e","l","l","o">>
Q_fenced == Fence \o <<"s","q","l","\n","S","E","L","E","C","T"," ","1">> \o Fence

\* the texts the model endpoint may produce as SQL
QueryTexts == {Q_select, Q_show, Q_delete, Q_with_delete, Q_truncate, Q_prose, Q_fenced}

\* app_3.py get_table_schema: the two fixed statements it executes
SchemaColumnsQuery == <<"S","E","L","E","C","T"," ","c","o","l","u","m","n","s">>
SchemaTablesQuery == <<"S","E","L","E","C","T"," ","t","a","b","l","e","s">>

\* app.py: the text assigned to sql_query when extract_sql raises
FailedToExtract == <<"F","a","i","l","e","d"," ","t","o"," ","e","x","t","r","a","c","t",
                     " ","c","l","e","a","n"," ","S","Q","L",":"," ","G","e","n","e","r",
                     "a","t","e","d"," ","t","e","x","t"," ","d","o","e","s"," ","n","o",
                     "t"," ","a","p","p","e","a","r"," ","t","o"," ","b","e"," ","a"," ",
                     "v","a","l","i","d"," ","S","Q","L"," ","q","u","e","r","y">>
FailedTooLong == <<"F","a","i","l","e","d"," ","t","o"," ","e","x","t","r","a","c","t",
                   " ","c","l","e","a","n"," ","S","Q","L",":"," ","G","e","n","e","r",
                   "a","t","e","d"," ","S","Q","L"," ","i","s"," ","t","o","o"," ","l",
                   "o","n","g">>

\* ------------------------------------------------- the data store (external)
\* statements for which the store produces a result set
ReturnsRows(q) ==
    strip(q) \in {Q_select, strip(Q_show), Q_with_delete,
                  SchemaColumnsQuery, SchemaTablesQuery}

\* statements that modify data when the store runs them
ModifiesData(q) == strip(q) \in {Q_delete, Q_with_delete, Q_truncate}

\* statements the store accepts; any other text is a syntax error
ValidSql(q) == ReturnsRows(q) \/ ModifiesData(q)

\* numbers of rows a result set may have
RowCounts == {0, RowCap, RowCap + 1}

\* what the store does during one use of a connection: whether connecting
\* succeeds, whether execute succeeds, and how many rows a result set has
DbChoices == [conn : BOOLEAN, exec : BOOLEAN, n : RowCounts]

\* cur.execute(q) raises
ExecuteRaises(q, d) == ~d.exec \/ ~ValidSql(q)

\* the outcome of one block of database code: the texts handed to
\* cur.execute, the data-modifying texts whose execution was committed,
\* the value the block leaves behind, whether the store raised, and whether
\* the exception left the block
DbOutcome(calls, committed, result, threw, raised) ==
    [calls |-> calls, committed |-> committed, result |-> result,
     threw |-> threw, raised |-> raised]

\* the events of a block of database code
DbEvents(out, ev) == IF out.threw THEN <<ev, "db_raise">> ELSE <<ev>>

CommitOf(q) == IF ModifiesData(q) THEN <<q>> ELSE <<>>

\* ------------------------------------------------------ message contents
None == "None"
NoId == 0

Content(kind, text, shown, total, truncated) ==
    [kind |-> kind, text |-> text, shown |-> shown, total |-> total, truncated |-> truncated]

Text(t) == Content("text", t, 0, 0, FALSE)
NoContent == Content("none", None, 0, 0, FALSE)

Min(a, b) == IF a <= b THEN a ELSE b

Msg(role, content, tool_calls, tool_call_id) ==
    [role |-> role, content |-> content, tool_calls |-> tool_calls, tool_call_id |-> tool_call_id]

SystemMsg == Msg("system", Text("persona"), <<>>, NoId)
UserMsg(p) == Msg("user", Text(p), <<>>, NoId)
AssistantMsg(c) == Msg("assistant", c, <<>>, NoId)

\* ------------------------------------------------ the model endpoint (external)
AnswerTexts == {"ans1", "ans2"}
Prompts == {"question"}

\* one tool-call request: the argument payload is one argument `key` with
\* value `val`, or no argument at all (key = "none")
ToolCall(id, name, key, val) == [id |-> id, name |-> name, key |-> key, val |-> val]

\* response.choices[0].message
Response(content, tool_calls) == [content |-> content, tool_calls |-> tool_calls]
NoResponse == Response(NoContent, <<>>)

\* a reply without a tool-call: some text, or no content at all
TextResponses ==
    {Response(Text(a), <<>>) : a \in AnswerTexts} \cup {Response(NoContent, <<>>)}

\* replies of chat.completions.create(tools=tools) that request tool-calls;
\* the ids base+1, base+2, ... are fresh
ToolResponses(base) ==
    {Response(NoContent, <<ToolCall(base + 1, "execute_sql_query", "sql", q)>>) :
        q \in QueryTexts}
    \cup {Response(Text("ans1"),
                   [i \in 1..k |-> ToolCall(base + i, "execute_sql_query", "sql", Q_select)]) :
            k \in 2..MaxToolCalls}
    \cup {Response(NoContent, <<ToolCall(base + 1, "undeclared_tool", "sql", Q_select)>>),
          Response(NoContent, <<ToolCall(base + 1, "execute_sql_query", "none", <<>>)>>)}

\* replies of chat.completions.create(functions=functions) that carry a
\* function_call (the legacy interface: one call, no id)
FunctionResponses ==
    {Response(NoContent, <<ToolCall(NoId, "query_database", "query", q)>>) :
        q \in QueryTexts}
    \cup {Response(NoContent, <<ToolCall(NoId, "get_table_schema", "table_name", <<"t">>)>>),
          Response(NoContent, <<ToolCall(NoId, "get_table_schema", "none", <<>>)>>),
          Response(NoContent, <<ToolCall(NoId, "undeclared_tool", "query", Q_select)>>),
          Response(NoContent, <<ToolCall(NoId, "query_database", "sql", Q_select)>>),
          Response(NoContent, <<ToolCall(NoId, "query_database", "none", <<>>)>>)}

\* ------------------------------------------------------------------ state
VARIABLES
    variant,       \* which script runs this session
    messages,      \* st.session_state.messages
    local,         \* the local list `messages` of process_user_input / new_app.py
    pc,            \* position of the turn handler
    turn,          \* number of turns started
    resp,          \* the message of the first model reply
    sql_query,     \* the query text the turn settled on
    result,        \* `result` / `rows` / `function_response`
    executeCalls,  \* texts handed to cur.execute in this turn, in order
    committed,     \* data-modifying texts committed in this turn
    events,        \* what the turn did, in order
    submitted,     \* the conversation handed to the latest model call
    second_response, \* the content of the second model reply
    before         \* st.session_state.messages as the turn found it

vars == <<variant, messages, local, pc, turn, resp, sql_query, result,
          executeCalls, committed, events, submitted, second_response, before>>

Variants == {"main", "app", "app_3", "app_4", "new_app"}

\* a new turn starts when the script is idle: at first, or after a turn that
\* ended or raised
Idle == pc \in {"idle", "done", "failed"}

Init ==
    /\ variant \in Variants
    /\ messages = IF variant \in {"app", "app_3", "app_4"} THEN <<SystemMsg>> ELSE <<>>
    /\ local = <<>>
    /\ pc = "idle"
    /\ turn = 0
    /\ resp = NoResponse
    /\ sql_query = <<>>
    /\ result = NoContent
    /\ executeCalls = <<>>
    /\ committed = <<>>
    /\ events = <<>>
    /\ submitted = <<>>
    /\ second_response = NoContent
    /\ before = messages

\* what every handler resets when a new turn (a new run of the script) starts
StartTurn ==
    /\ Idle
    /\ turn < MaxTurns
    /\ turn' = turn + 1
    /\ pc' = "call1"
    /\ resp' = NoResponse
    /\ sql_query' = <<>>
    /\ result' = NoContent
    /\ executeCalls' = <<>>
    /\ committed' = <<>>
    /\ submitted' = <<>>
    /\ second_response' = NoContent
    /\ before' = messages

\* an exception leaves the script: the run stops where it is
Raise(evs) ==
    /\ pc' = "failed"
    /\ events' = events \o evs \o <<"raise">>

\* ------------------------------------------------------------------ app_4.py
\* the try/except/finally around the query of the tool branch
RunQuery4(sql, d) ==
    IF ~d.conn
    THEN DbOutcome(<<>>, <<>>, Content("error", None, 0, 0, FALSE), TRUE, FALSE)
    ELSE IF ExecuteRaises(sql, d) \/ ~ReturnsRows(sql)
    THEN DbOutcome(<<sql>>, <<>>, Content("error", None, 0, 0, FALSE), TRUE, FALSE)
    ELSE IF d.n = 0
    THEN DbOutcome(<<sql>>, <<>>, Content("norows", None, 0, 0, FALSE), FALSE, FALSE)
    ELSE DbOutcome(<<sql>>, <<>>,
                   Content("rows", None, Min(d.n, RowCap), d.n, d.n > RowCap), FALSE, FALSE)

\* any(cmd in sql_lower for cmd in [...])
Blocked4(sql) == \E cmd \in Denylist : contains(lower(sql), cmd)

\* mutant for C11: the handler starts the conversation afresh, as new_app.py does
App4_Input_Reset(prompt) ==
    /\ variant = "app_4"
    /\ StartTurn
    /\ messages' = <<SystemMsg, UserMsg(prompt)>>
    /\ events' = <<"user_msg">>
    /\ UNCHANGED <<variant, local>>

App4_Input(prompt) ==
    /\ variant = "app_4"
    /\ StartTurn
    /\ messages' = Append(messages, UserMsg(prompt))
    /\ events' = <<"user_msg">>
    /\ UNCHANGED <<variant, local>>

App4_Call1 ==
    /\ variant = "app_4"
    /\ pc = "call1"
    /\ submitted' = messages
    /\ \/ /\ Raise(<<"call1_tools">>)
          /\ UNCHANGED resp
       \/ /\ \E r \in TextResponses \cup ToolResponses((turn - 1) * MaxToolCalls) : resp' = r
          /\ pc' = "got1"
          /\ events' = Append(events, "call1_tools")
    /\ UNCHANGED <<variant, before, second_response, messages, local, turn, sql_query, result, executeCalls, committed>>

\* no tool-call: full_response = message.content or "Sorry, ..."
App4_Answer ==
    /\ variant = "app_4"
    /\ pc = "got1"
    /\ resp.tool_calls = <<>>
    /\ LET full_response == IF resp.content.kind = "text" THEN resp.content ELSE Text("sorry")
       IN messages' = Append(messages, AssistantMsg(full_response))
    /\ pc' = "done"
    /\ events' = Append(events, "final_msg")
    /\ UNCHANGED <<variant, before, second_response, local, turn, resp, sql_query, result, executeCalls, committed, submitted>>

\* tool-call of execute_sql_query carrying the argument "sql"
App4_Tool ==
    /\ variant = "app_4"
    /\ pc = "got1"
    /\ resp.tool_calls # <<>>
    /\ LET tool_call == resp.tool_calls[1]
           sql == strip(tool_call.val)
       IN /\ tool_call.name = "execute_sql_query"
          /\ tool_call.key = "sql"
          /\ \E d \in DbChoices :
               LET out == IF Blocked4(sql)
                          THEN DbOutcome(<<>>, <<>>, Content("policy", None, 0, 0, FALSE), FALSE, FALSE)
                          ELSE RunQuery4(sql, d)
               IN /\ sql_query' = sql
                  /\ result' = out.result
                  /\ executeCalls' = executeCalls \o out.calls
                  /\ committed' = committed \o out.committed
                  /\ messages' = messages \o
                        << Msg("assistant", resp.content, resp.tool_calls, NoId),
                           Msg("tool", out.result, <<>>, tool_call.id) >>
                  /\ events' = events \o DbEvents(out, "dispatch")
                                       \o <<"toolcall_msg", "toolresult_msg">>
    /\ pc' = "call2"
    /\ UNCHANGED <<variant, before, second_response, local, turn, resp, submitted>>

\* arguments["sql"] on a payload without "sql": KeyError
App4_KeyError ==
    /\ variant = "app_4"
    /\ pc = "got1"
    /\ resp.tool_calls # <<>>
    /\ resp.tool_calls[1].name = "execute_sql_query"
    /\ resp.tool_calls[1].key # "sql"
    /\ Raise(<<"bad_call">>)
    /\ UNCHANGED <<variant, before, second_response, messages, local, turn, resp, sql_query, result,
                   executeCalls, committed, submitted>>

\* a tool-call of another name: no branch is taken, full_response stays ""
App4_OtherTool ==
    /\ variant = "app_4"
    /\ pc = "got1"
    /\ resp.tool_calls # <<>>
    /\ resp.tool_calls[1].name # "execute_sql_query"
    /\ messages' = Append(messages, AssistantMsg(Text("")))
    /\ pc' = "done"
    /\ events' = Append(events, "final_msg")
    /\ UNCHANGED <<variant, before, second_response, local, turn, resp, sql_query, result, executeCalls,
                   committed, submitted>>

\* mutant for C14: a failed second call is tried again
App4_Call2_Retry ==
    /\ variant = "app_4"
    /\ pc = "call2"
    /\ submitted' = messages
    /\ \/ /\ pc' = "call2"
          /\ events' = Append(events, "call2_plain")
          /\ UNCHANGED <<messages, second_response>>
       \/ /\ \E a \in AnswerTexts :
               /\ second_response' = Text(a)
               /\ messages' = Append(messages, AssistantMsg(Text(a)))
          /\ pc' = "done"
          /\ events' = events \o <<"call2_plain", "final_msg">>
    /\ UNCHANGED <<variant, before, local, turn, resp, sql_query, result, executeCalls, committed>>

\* second call, without tools; its text is appended as the assistant message
App4_Call2 ==
    /\ variant = "app_4"
    /\ pc = "call2"
    /\ submitted' = messages
    /\ \/ /\ Raise(<<"call2_plain">>)
          /\ UNCHANGED <<messages, second_response>>
       \/ /\ \E a \in AnswerTexts :
               /\ second_response' = Text(a)
               /\ messages' = Append(messages, AssistantMsg(Text(a)))
          /\ pc' = "done"
          /\ events' = events \o <<"call2_plain", "final_msg">>
    /\ UNCHANGED <<variant, before, local, turn, resp, sql_query, result, executeCalls, committed>>

\* ------------------------------------------------------------------ app_3.py
Error == Content("error", None, 0, 0, FALSE)

\* execute_sql_query(query): every exception becomes {"error": ...}
execute_sql_query3(query, d) ==
    IF ~d.conn
    THEN DbOutcome(<<>>, <<>>, Error, TRUE, FALSE)
    ELSE IF ExecuteRaises(query, d)
    THEN DbOutcome(<<query>>, <<>>, Error, TRUE, FALSE)
    ELSE IF \E p \in FetchPrefixes : startswith(lower(strip(query)), p)
    THEN IF ReturnsRows(query)
         THEN DbOutcome(<<query>>, <<>>, Content("rows", None, d.n, d.n, FALSE), FALSE, FALSE)
         ELSE DbOutcome(<<query>>, <<>>, Error, TRUE, FALSE)
    ELSE DbOutcome(<<query>>, CommitOf(query), Content("message", None, 0, 0, FALSE), FALSE, FALSE)

\* get_table_schema(table_name): one fixed SELECT, every exception caught
get_table_schema(table_name, d) ==
    LET q == IF table_name # <<>> THEN SchemaColumnsQuery ELSE SchemaTablesQuery
    IN IF ~d.conn
       THEN DbOutcome(<<>>, <<>>, Error, TRUE, FALSE)
       ELSE IF ExecuteRaises(q, d)
       THEN DbOutcome(<<q>>, <<>>, Error, TRUE, FALSE)
       ELSE DbOutcome(<<q>>, <<>>, Content("schema", None, d.n, d.n, FALSE), FALSE, FALSE)

\* available_functions[function_name] exists and the call binds its arguments
Callable3(fc) ==
    \/ fc.name = "get_table_schema"
    \/ fc.name = "query_database" /\ fc.key = "query"

App3_Input(user_input) ==
    /\ variant = "app_3"
    /\ StartTurn
    /\ local' = Append(messages, UserMsg(user_input))
    /\ events' = <<"user_msg">>
    /\ UNCHANGED <<variant, messages>>

App3_Call1 ==
    /\ variant = "app_3"
    /\ pc = "call1"
    /\ submitted' = local
    /\ \/ /\ Raise(<<"call1_tools">>)
          /\ local' = <<>>
          /\ UNCHANGED resp
       \/ /\ \E r \in TextResponses \cup FunctionResponses : resp' = r
          /\ pc' = "got1"
          /\ events' = Append(events, "call1_tools")
          /\ UNCHANGED local
    /\ UNCHANGED <<variant, before, second_response, messages, turn, sql_query, result, executeCalls, committed>>

\* no function_call: the reply is returned and stored by the caller
App3_Answer ==
    /\ variant = "app_3"
    /\ pc = "got1"
    /\ resp.tool_calls = <<>>
    /\ messages' = Append(local, AssistantMsg(resp.content))
    /\ local' = <<>>
    /\ pc' = "done"
    /\ events' = Append(events, "final_msg")
    /\ UNCHANGED <<variant, before, second_response, turn, resp, sql_query, result, executeCalls, committed, submitted>>

\* function_call: the function runs and its response is appended to `messages`
App3_Function ==
    /\ variant = "app_3"
    /\ pc = "got1"
    /\ resp.tool_calls # <<>>
    /\ LET function_call == resp.tool_calls[1]
       IN /\ Callable3(function_call)
          /\ \E d \in DbChoices :
               LET out == IF function_call.name = "get_table_schema"
                          THEN get_table_schema(
                                 IF function_call.key = "table_name"
                                 THEN function_call.val ELSE <<>>, d)
                          ELSE execute_sql_query3(function_call.val, d)
               IN /\ sql_query' = IF function_call.name = "query_database"
                                  THEN function_call.val ELSE <<>>
                  /\ result' = out.result
                  /\ executeCalls' = executeCalls \o out.calls
                  /\ committed' = committed \o out.committed
                  /\ local' = Append(local, Msg("function", out.result, <<>>, NoId))
                  /\ events' = events \o DbEvents(out, "dispatch") \o <<"toolresult_msg">>
    /\ pc' = "call2"
    /\ UNCHANGED <<variant, before, second_response, messages, turn, resp, submitted>>

\* KeyError of available_functions[...] or TypeError of function_to_call(**args)
App3_CallError ==
    /\ variant = "app_3"
    /\ pc = "got1"
    /\ resp.tool_calls # <<>>
    /\ ~Callable3(resp.tool_calls[1])
    /\ Raise(<<"bad_call">>)
    /\ local' = <<>>
    /\ UNCHANGED <<variant, before, second_response, messages, turn, resp, sql_query, result,
                   executeCalls, committed, submitted>>

\* second call; the return value repeats the function message after `messages`
App3_Call2 ==
    /\ variant = "app_3"
    /\ pc = "call2"
    /\ submitted' = local
    /\ \/ /\ Raise(<<"call2_plain">>)
          /\ UNCHANGED <<messages, second_response>>
       \/ /\ \E a \in AnswerTexts :
               /\ second_response' = Text(a)
               /\ messages' = local \o << Msg("function", result, <<>>, NoId),
                                          AssistantMsg(Text(a)) >>
          /\ pc' = "done"
          /\ events' = events \o <<"call2_plain", "toolresult_msg", "final_msg">>
    /\ local' = <<>>
    /\ UNCHANGED <<variant, before, turn, resp, sql_query, result, executeCalls, committed>>

\* ---------------------------------------------------------------- new_app.py
\* execute_sql_query(sql) inside the try/except of the tool branch
execute_sql_queryN(sql, d) ==
    IF ~d.conn
    THEN DbOutcome(<<>>, <<>>, Error, TRUE, FALSE)
    ELSE IF ExecuteRaises(sql, d) \/ ~ReturnsRows(sql)
    THEN DbOutcome(<<sql>>, <<>>, Error, TRUE, FALSE)
    ELSE DbOutcome(<<sql>>, <<>>, Content("rows", None, d.n, d.n, FALSE), FALSE, FALSE)

NewApp_Run(question) ==
    /\ variant = "new_app"
    /\ StartTurn
    /\ local' = <<SystemMsg, UserMsg(question)>>
    /\ events' = <<"user_msg">>
    /\ UNCHANGED <<variant, messages>>

NewApp_Call1 ==
    /\ variant = "new_app"
    /\ pc = "call1"
    /\ submitted' = local
    /\ \/ /\ Raise(<<"call1_tools">>)
          /\ UNCHANGED resp
       \/ /\ \E r \in TextResponses \cup ToolResponses((turn - 1) * MaxToolCalls) : resp' = r
          /\ pc' = "got1"
          /\ events' = Append(events, "call1_tools")
    /\ UNCHANGED <<variant, before, second_response, messages, local, turn, sql_query, result, executeCalls, committed>>

\* no tool-call: the content is written to the page
NewApp_Answer ==
    /\ variant = "new_app"
    /\ pc = "got1"
    /\ resp.tool_calls = <<>>
    /\ pc' = "done"
    /\ events' = Append(events, "final_write")
    /\ UNCHANGED <<variant, before, second_response, messages, local, turn, resp, sql_query, result,
                   executeCalls, committed, submitted>>

NewApp_Tool ==
    /\ variant = "new_app"
    /\ pc = "got1"
    /\ resp.tool_calls # <<>>
    /\ LET tool_call == resp.tool_calls[1]
       IN /\ tool_call.name = "execute_sql_query"
          /\ tool_call.key = "sql"
          /\ \E d \in DbChoices :
               LET out == execute_sql_queryN(tool_call.val, d)
               IN /\ sql_query' = tool_call.val
                  /\ result' = out.result
                  /\ executeCalls' = executeCalls \o out.calls
                  /\ committed' = committed \o out.committed
                  /\ local' = local \o
                        << Msg("assistant", resp.content, resp.tool_calls, NoId),
                           Msg("tool", out.result, <<>>, tool_call.id) >>
                  /\ events' = events \o DbEvents(out, "dispatch")
                                       \o <<"toolcall_msg", "toolresult_msg">>
    /\ pc' = "call2"
    /\ UNCHANGED <<variant, before, second_response, messages, turn, resp, submitted>>

\* args["sql"] on a payload without "sql": KeyError
NewApp_KeyError ==
    /\ variant = "new_app"
    /\ pc = "got1"
    /\ resp.tool_calls # <<>>
    /\ resp.tool_calls[1].name = "execute_sql_query"
    /\ resp.tool_calls[1].key # "sql"
    /\ Raise(<<"bad_call">>)
    /\ UNCHANGED <<variant, before, second_response, messages, local, turn, resp, sql_query, result,
                   executeCalls, committed, submitted>>

\* a tool-call of another name: the run ends without output
NewApp_OtherTool ==
    /\ variant = "new_app"
    /\ pc = "got1"
    /\ resp.tool_calls # <<>>
    /\ resp.tool_calls[1].name # "execute_sql_query"
    /\ pc' = "done"
    /\ UNCHANGED <<variant, before, second_response, messages, local, turn, resp, sql_query, result,
                   executeCalls, committed, events, submitted>>

NewApp_Call2 ==
    /\ variant = "new_app"
    /\ pc = "call2"
    /\ submitted' = local
    /\ \/ /\ Raise(<<"call2_plain">>)
          /\ UNCHANGED second_response
       \/ /\ pc' = "done"
          /\ \E a \in AnswerTexts : second_response' = Text(a)
          /\ events' = events \o <<"call2_plain", "final_write">>
    /\ UNCHANGED <<variant, before, messages, local, turn, resp, sql_query, result,
                   executeCalls, committed>>

\* -------------------------------------------------------------------- app.py
\* re.sub(r'^```(?:sql)?\s*', '', text, flags=re.IGNORECASE)
StripOpeningFence(text) ==
    IF startswith(text, Fence)
    THEN LET after == SubSeq(text, Len(Fence) + 1, Len(text))
             body == IF startswith(lower(after), FenceLang)
                     THEN SubSeq(after, Len(FenceLang) + 1, Len(after))
                     ELSE after
         IN lstrip(body)
    ELSE text

\* re.sub(r'```$', '', sql): `$` is the end, or the place before a last newline
StripClosingFence(sql) ==
    IF endswith(sql, Fence)
    THEN SubSeq(sql, 1, Len(sql) - Len(Fence))
    ELSE IF endswith(sql, Fence \o <<"\n">>)
    THEN SubSeq(sql, 1, Len(sql) - Len(Fence) - 1) \o <<"\n">>
    ELSE sql

\* extract_sql(text) and the try/except around it: ok, with the clean text,
\* or not ok, with the text that line 125 assigns to sql_query
extract_sql(text) ==
    LET sql == strip(StripClosingFence(StripOpeningFence(text)))
    IN IF ~ \E kw \in LeadKeywords : startswith(upper(lstrip(sql)), kw)
       THEN [ok |-> FALSE, sql |-> FailedToExtract]
       ELSE IF Len(sql) > MaxSqlLen
       THEN [ok |-> FALSE, sql |-> FailedTooLong]
       ELSE [ok |-> TRUE, sql |-> sql]

\* "Execute SQL safely": the connection is opened outside the try
ExecuteSafely(sql, d) ==
    IF ~d.conn
    THEN DbOutcome(<<>>, <<>>, NoContent, TRUE, TRUE)
    ELSE IF ExecuteRaises(sql, d)
    THEN DbOutcome(<<sql>>, <<>>, Error, TRUE, FALSE)
    ELSE IF startswith(upper(strip(sql)), KwSelect)
    THEN IF ReturnsRows(sql)
         THEN DbOutcome(<<sql>>, <<>>, Content("rows", None, d.n, d.n, FALSE), FALSE, FALSE)
         ELSE DbOutcome(<<sql>>, <<>>, Error, TRUE, FALSE)
    ELSE DbOutcome(<<sql>>, CommitOf(sql), Content("message", None, 0, 0, FALSE), FALSE, FALSE)

\* "Run SQL against PostgreSQL": execute and fetch in a try, then commit
RunSql(sql, d) ==
    IF ~d.conn
    THEN DbOutcome(<<>>, <<>>, NoContent, TRUE, TRUE)
    ELSE IF ExecuteRaises(sql, d)
    THEN DbOutcome(<<sql>>, <<>>, Error, TRUE, FALSE)
    ELSE IF ~ReturnsRows(sql)
    THEN DbOutcome(<<sql>>, CommitOf(sql), Error, TRUE, FALSE)
    ELSE DbOutcome(<<sql>>, CommitOf(sql), Content("rows", None, d.n, d.n, FALSE), FALSE, FALSE)

App_Input(prompt) ==
    /\ variant = "app"
    /\ StartTurn
    /\ messages' = Append(messages, UserMsg(prompt))
    /\ events' = <<"user_msg">>
    /\ UNCHANGED <<variant, local>>

\* "1. Generate SQL": the model is given SQL_PROMPT and the prompt, no tools
App_GenerateSql ==
    /\ variant = "app"
    /\ pc = "call1"
    /\ submitted' = <<Msg("system", Text("SQL_PROMPT"), <<>>, NoId), messages[Len(messages)]>>
    /\ \/ /\ Raise(<<"call1_plain">>)
          /\ UNCHANGED resp
       \/ /\ \E q \in QueryTexts : resp' = Response(Text(strip(q)), <<>>)
          /\ pc' = "got1"
          /\ events' = Append(events, "call1_plain")
    /\ UNCHANGED <<variant, before, second_response, messages, local, turn, sql_query, result,
                   executeCalls, committed>>

\* extract_sql and, when it succeeds, the first execution
App_ExecuteSafely ==
    /\ variant = "app"
    /\ pc = "got1"
    /\ LET e == extract_sql(resp.content.text)
       IN /\ sql_query' = e.sql
          /\ IF ~e.ok
             THEN /\ result' = NoContent
                  /\ pc' = "run2"
                  /\ events' = Append(events, "extract_failed")
                  /\ UNCHANGED <<executeCalls, committed>>
             ELSE \E d \in DbChoices :
                    LET out == ExecuteSafely(e.sql, d)
                    IN /\ executeCalls' = executeCalls \o out.calls
                       /\ committed' = committed \o out.committed
                       /\ IF out.raised
                          THEN Raise(DbEvents(out, "run_sql")) /\ UNCHANGED result
                          ELSE /\ result' = out.result
                               /\ pc' = "run2"
                               /\ events' = events \o DbEvents(out, "run_sql")
    /\ UNCHANGED <<variant, before, second_response, messages, local, turn, resp, submitted>>

\* the second execution of sql_query, whatever the first block left in it
App_RunSql ==
    /\ variant = "app"
    /\ pc = "run2"
    /\ \E d \in DbChoices :
         LET out == RunSql(sql_query, d)
         IN /\ executeCalls' = executeCalls \o out.calls
            /\ committed' = committed \o out.committed
            /\ IF out.raised
               THEN Raise(DbEvents(out, "run_sql")) /\ UNCHANGED result
               ELSE /\ result' = out.result
                    /\ pc' = "call2"
                    /\ events' = events \o DbEvents(out, "run_sql")
    /\ UNCHANGED <<variant, before, second_response, messages, local, turn, resp, sql_query, submitted>>

\* "3. Summarize results": the summary is appended as the assistant message
App_Summarize ==
    /\ variant = "app"
    /\ pc = "call2"
    /\ submitted' = <<Msg("system", Text("SUMMARY_PROMPT"), <<>>, NoId),
                      Msg("user", result, <<>>, NoId)>>
    /\ \/ /\ Raise(<<"call2_plain">>)
          /\ UNCHANGED <<messages, second_response>>
       \/ /\ \E a \in AnswerTexts :
               /\ second_response' = Text(a)
               /\ messages' = Append(messages, AssistantMsg(Text(a)))
          /\ pc' = "done"
          /\ events' = events \o <<"call2_plain", "final_msg">>
    /\ UNCHANGED <<variant, before, local, turn, resp, sql_query, result, executeCalls, committed>>

\* ------------------------------------------------------------------- main.py
\* the database code of ask(): nothing is caught
Execute(sql, d) ==
    IF ~d.conn
    THEN DbOutcome(<<>>, <<>>, NoContent, TRUE, TRUE)
    ELSE IF ExecuteRaises(sql, d) \/ ~ReturnsRows(sql)
    THEN DbOutcome(<<sql>>, <<>>, NoContent, TRUE, TRUE)
    ELSE DbOutcome(<<sql>>, CommitOf(sql), Content("rows", None, d.n, d.n, FALSE), FALSE, FALSE)

Main_Ask(question) ==
    /\ variant = "main"
    /\ StartTurn
    /\ local' = <<UserMsg(question)>>
    /\ events' = <<>>
    /\ UNCHANGED <<variant, messages>>

\* llm_generate_sql(question)
Main_GenerateSql ==
    /\ variant = "main"
    /\ pc = "call1"
    /\ submitted' = local
    /\ \/ /\ Raise(<<"call1_plain">>)
          /\ UNCHANGED sql_query
       \/ /\ \E q \in QueryTexts : sql_query' = strip(q)
          /\ pc' = "got1"
          /\ events' = Append(events, "call1_plain")
    /\ UNCHANGED <<variant, before, second_response, messages, local, turn, resp, result,
                   executeCalls, committed>>

\* connect, execute, fetchall, commit, close
Main_Execute ==
    /\ variant = "main"
    /\ pc = "got1"
    /\ \E d \in DbChoices :
         LET out == Execute(sql_query, d)
         IN /\ executeCalls' = executeCalls \o out.calls
            /\ committed' = committed \o out.committed
            /\ IF out.raised
               THEN Raise(DbEvents(out, "run_sql")) /\ UNCHANGED result
               ELSE /\ result' = out.result
                    /\ pc' = "call2"
                    /\ events' = events \o DbEvents(out, "run_sql")
    /\ UNCHANGED <<variant, before, second_response, messages, local, turn, resp, sql_query, submitted>>

\* llm_summarize(question, sql, rows) and the returned answer
Main_Summarize ==
    /\ variant = "main"
    /\ pc = "call2"
    /\ submitted' = <<Msg("user", result, <<>>, NoId)>>
    /\ \/ /\ Raise(<<"call2_plain">>)
          /\ UNCHANGED second_response
       \/ /\ \E a \in AnswerTexts : second_response' = Text(a)
          /\ pc' = "done"
          /\ events' = events \o <<"call2_plain", "final_return">>
    /\ UNCHANGED <<variant, before, messages, local, turn, resp, sql_query, result,
                   executeCalls, committed>>

Next ==
    \/ \E p \in Prompts : App4_Input(p)
    \/ App4_Call1
    \/ App4_Answer
    \/ App4_Tool
    \/ App4_KeyError
    \/ App4_OtherTool
    \/ App4_Call2
    \/ \E p \in Prompts : App3_Input(p)
    \/ App3_Call1
    \/ App3_Answer
    \/ App3_Function
    \/ App3_CallError
    \/ App3_Call2
    \/ \E p \in Prompts : NewApp_Run(p)
    \/ NewApp_Call1
    \/ NewApp_Answer
    \/ NewApp_Tool
    \/ NewApp_KeyError
    \/ NewApp_OtherTool
    \/ NewApp_Call2
    \/ \E p \in Prompts : App_Input(p)
    \/ App_GenerateSql
    \/ App_ExecuteSafely
    \/ App_RunSql
    \/ App_Summarize
    \/ \E p \in Prompts : Main_Ask(p)
    \/ Main_GenerateSql
    \/ Main_Execute
    \/ Main_Summarize

Spec == Init /\ [][Next]_vars

\* ---------------------------------------------------------------- properties
Range(s) == {s[i] : i \in DOMAIN s}

\* the scripts in which the model requests SQL through a declared tool
SqlToolVariants == {"app_4", "app_3", "new_app"}

\* the scripts that keep the conversation in st.session_state.messages
SessionVariants == {"app", "app_3", "app_4"}

\* the conversation the session has stored (new_app.py keeps it in the run's list)
StoredConversation == IF variant = "new_app" THEN local ELSE messages

\* the conversation the turn is working on
WorkingConversation ==
    IF variant \in {"app_3", "new_app"} /\ local # <<>> THEN local ELSE messages

\* the conversation that model call #2 is given: the one submitted, or
\* before the call the one the turn is working on
SecondCallInput ==
    IF "call2_plain" \in Range(events) THEN submitted ELSE WorkingConversation

\* the model handed a query text over in this turn
HasRequest ==
    CASE variant \in {"app_4", "new_app"} ->
            /\ resp.tool_calls # <<>>
            /\ resp.tool_calls[1].name = "execute_sql_query"
            /\ resp.tool_calls[1].key = "sql"
      [] variant = "app_3" ->
            /\ resp.tool_calls # <<>>
            /\ resp.tool_calls[1].name = "query_database"
            /\ resp.tool_calls[1].key = "query"
      [] variant = "app" -> resp.content.kind = "text"
      [] variant = "main" -> sql_query # <<>>

\* that query text (app.py: after the Markdown fences are removed)
RequestedQuery ==
    CASE variant \in SqlToolVariants -> resp.tool_calls[1].val
      [] variant = "app" ->
            strip(StripClosingFence(StripOpeningFence(resp.content.text)))
      [] variant = "main" -> sql_query

\* the turn has gone through its tool dispatch / SQL step
Dispatched == \E e \in Range(events) : e \in {"dispatch", "run_sql", "extract_failed"}

\* the text contains a data-modifying keyword, in any case, anywhere
ContainsForbidden(q) ==
    \E i \in 1..Len(q) : \E kw \in Denylist :
        i + Len(kw) - 1 <= Len(q) /\ lower(SubSeq(q, i, i + Len(kw) - 1)) = kw

\* the text begins with SELECT, WITH, SHOW or EXPLAIN, in any case
AllowedLead(q) ==
    \E kw \in {<<"s","e","l","e","c","t">>, <<"w","i","t","h">>,
               <<"s","h","o","w">>, <<"e","x","p","l","a","i","n">>} :
        startswith(lower(lstrip(q)), kw)

\* the tool-result messages of a conversation
ToolResults(conv) == {i \in DOMAIN conv : conv[i].role \in {"tool", "function"}}

\* the tool-call requests before position i that the tool-result at i answers
RequestsOf(conv, i) ==
    {jk \in (1..(i - 1)) \X (1..MaxToolCalls) :
        /\ conv[jk[1]].role = "assistant"
        /\ jk[2] \in DOMAIN conv[jk[1]].tool_calls
        /\ conv[jk[1]].tool_calls[jk[2]].id = conv[i].tool_call_id}

WellMatched(conv) ==
    \A i \in ToolResults(conv) :
        /\ Cardinality(RequestsOf(conv, i)) = 1
        /\ \A i2 \in ToolResults(conv) \ {i} : RequestsOf(conv, i2) \cap RequestsOf(conv, i) = {}

\* every tool-call request of the conversation has a tool-result after it
AllAnswered(conv) ==
    \A j \in DOMAIN conv : \A k \in DOMAIN conv[j].tool_calls :
        \E i \in (j + 1)..Len(conv) :
            /\ conv[i].role \in {"tool", "function"}
            /\ conv[i].tool_call_id = conv[j].tool_calls[k].id

\* the first tool-call of the reply names no declared tool or lacks the
\* argument its declaration requires
MalformedCall ==
    /\ variant \in SqlToolVariants
    /\ resp.tool_calls # <<>>
    /\ LET c == resp.tool_calls[1]
       IN IF variant = "app_3"
          THEN \/ c.name \notin {"query_database", "get_table_schema"}
               \/ c.name = "query_database" /\ c.key # "query"
          ELSE \/ c.name # "execute_sql_query"
               \/ c.key # "sql"

\* an exception of the store left the turn
StoreErrorEscaped ==
    \E i \in 1..(Len(events) - 1) : events[i] = "db_raise" /\ events[i + 1] = "raise"

\* the turn stopped because its first model call raised
FirstCallFailed ==
    /\ pc = "failed"
    /\ Len(events) >= 2
    /\ events[Len(events)] = "raise"
    /\ events[Len(events) - 1] \in {"call1_tools", "call1_plain"}

\* C1: a query text passed to the SQL tool that contains INSERT, UPDATE,
\* DELETE, DROP, CREATE, ALTER or GRANT (any case, anywhere) gets a
\* policy-violation result and no cur.execute is reached for it in the turn
\* (stated for the turns in which the store raises nothing).
C1_ForbiddenNeverExecuted ==
    ( /\ variant \in SqlToolVariants
      /\ HasRequest
      /\ Dispatched
      /\ "db_raise" \notin Range(events)
      /\ ContainsForbidden(RequestedQuery) )
    => (result.kind = "policy" /\ executeCalls = <<>>)

\* C2: in every state of a turn no data-modifying statement has been handed
\* to the store and none has been committed.
C2_NoWriteIssuedOrCommitted ==
    /\ \A i \in DOMAIN executeCalls : ~ModifiesData(executeCalls[i])
    /\ committed = <<>>

\* C3: between turns, every tool-result message of the stored conversation
\* answers exactly one earlier assistant tool-call, and no tool-call is
\* answered twice.
C3_ToolResultsMatched ==
    (variant \in SqlToolVariants /\ Idle) => WellMatched(StoredConversation)

\* C4: the conversation submitted to model call #2 has a tool-result after
\* every tool-call request it contains, also when the first reply carried
\* several tool-calls.
C4_SubmittedCallsAnswered ==
    ("call2_plain" \in Range(events)) => AllAnswered(submitted)

\* C5: when the store raises while the requested query runs, the exception
\* does not leave the turn, the result is error-shaped and is in the
\* conversation as a tool-result, and the turn goes on to model call #2.
C5_StoreErrorContained ==
    (variant \in SqlToolVariants \cup {"main"} /\ "db_raise" \in Range(events))
    => /\ ~StoreErrorEscaped
       /\ result.kind = "error"
       /\ pc = "call2" \/ "call2_plain" \in Range(events)
       /\ variant \in SqlToolVariants =>
             \E i \in ToolResults(SecondCallInput) :
                 SecondCallInput[i].content.kind = "error"

\* C6: a query text that begins with an allowed read-only keyword and holds
\* no forbidden keyword causes exactly one cur.execute in its turn (the store
\* being reachable and not raising).
C6_ExactlyOneExecute ==
    ( /\ HasRequest
      /\ pc = "done"
      /\ AllowedLead(RequestedQuery)
      /\ ~ContainsForbidden(RequestedQuery)
      /\ "db_raise" \notin Range(events) )
    => Len(executeCalls) = 1

\* C7: a query text that does not begin with SELECT, WITH, SHOW or EXPLAIN
\* is never handed to cur.execute; in particular no cur.execute happens in a
\* turn in which extract_sql raised.
C7_NotAllowlistedNeverExecuted ==
    /\ (variant \in {"app", "app_4"} /\ HasRequest /\ ~AllowedLead(RequestedQuery))
          => executeCalls = <<>>
    /\ (variant = "app" /\ "extract_failed" \in Range(events)) => executeCalls = <<>>

\* C8: of n rows returned by the store the tool result holds min(n, 100) and
\* it indicates truncation exactly when n > 100.
C8_RowsCapped ==
    (variant \in SqlToolVariants /\ result.kind = "rows")
    => /\ result.shown = Min(result.total, RowCap)
       /\ result.truncated <=> (result.total > RowCap)

\* C9: after a turn whose first model call failed, the stored conversation
\* is the conversation before the turn followed by the user's message, and
\* nothing else.
C9_FailedCallKeepsUserMessage ==
    (variant \in SessionVariants /\ FirstCallFailed)
    => \E p \in Prompts : messages = Append(before, UserMsg(p))

\* C10: after a tool-call that names an undeclared tool or lacks the required
\* argument the turn has not crashed: an error tool-result for that call is
\* in the conversation and model call #2 is made.
C10_MalformedCallReported ==
    (MalformedCall /\ pc # "got1")
    => /\ pc = "call2" \/ "call2_plain" \in Range(events)
       /\ \E i \in ToolResults(SecondCallInput) :
             /\ SecondCallInput[i].content.kind = "error"
             /\ SecondCallInput[i].tool_call_id = resp.tool_calls[1].id

\* a is an initial part of b
IsPrefix(a, b) == Len(a) <= Len(b) /\ SubSeq(b, 1, Len(a)) = a

\* the conversation starts with the system message and holds no other one
OneSystemFirst(conv) ==
    /\ conv # <<>>
    /\ conv[1] = SystemMsg
    /\ \A i \in 2..Len(conv) : conv[i].role # "system"

\* one step of a script that keeps a session conversation
AppendOnlyStep ==
    variant \in SessionVariants =>
        /\ OneSystemFirst(messages)
        /\ OneSystemFirst(messages')
        /\ IsPrefix(messages, messages')
        /\ IsPrefix(before', messages')

\* C11: in the scripts that keep a session conversation, the conversation
\* always begins with the one system message of the session start, and every
\* step of every turn only appends: the conversation before the step is an
\* initial part of the conversation after it.
C11_AppendOnly == [][AppendOnlyStep]_vars

\* C11 witness: a second turn with a tool call has ended on top of a first
\* turn that left messages behind
C11_Witness ==
    /\ variant \in {"app_3", "app_4"}
    /\ turn = 2
    /\ pc = "done"
    /\ Len(before) > 2
    /\ Len(messages) > Len(before) + 2

\* ---- rendering of the stored conversation on a script run ----

\* app_4.py: every message but the first is shown, under its own role
display_history4(conv) == SubSeq(conv, 2, Len(conv))

\* app_3.py: only the messages of role user or assistant are shown
IsChatRole(m) == m.role \in {"user", "assistant"}

display_history3(conv) == SelectSeq(conv, IsChatRole)

\* app.py: every message whose role is not system is shown
NotSystem(m) == m.role # "system"

display_history(conv) == SelectSeq(conv, NotSystem)

\* what the display loop of the current script run has shown: it runs over
\* the session conversation as the run found it, before the input is handled
DisplayedHistory ==
    CASE variant = "app_4" -> display_history4(before)
      [] variant = "app_3" -> display_history3(before)
      [] variant = "app" -> display_history(before)
      [] OTHER -> <<>>

\* a user message, or an assistant message that is no tool-call bookkeeping
IsVisible(m) == m.role \in {"user", "assistant"} /\ m.tool_calls = <<>>

Visible(conv) == SelectSeq(conv, IsVisible)

\* C12: on every script run of a session, the displayed history is exactly
\* the user and assistant text messages of the conversation, in order; the
\* system message, the assistant tool-call messages and the tool-result
\* messages are not displayed.
C12_OnlyChatTextDisplayed ==
    variant \in SessionVariants => DisplayedHistory = Visible(before)

\* the steps of the turn so far, without the marks of raised exceptions
IsStep(e) == e \notin {"db_raise", "raise"}

TurnSteps == SelectSeq(events, IsStep)

\* the order of steps of a tool turn: first call with tool declarations,
\* assistant tool-call message, dispatch, tool-result message, second call
\* without tool declarations, final assistant message
ToolTurnOrder ==
    << "user_msg", "call1_tools", "toolcall_msg", "dispatch",
       "toolresult_msg", "call2_plain", "final_msg" >>

\* C13: in a turn whose first model response requests a tool call that is
\* dispatched, the steps taken so far are an initial part of the order above;
\* a finished turn has taken all of them, and the assistant message appended
\* last carries the text returned by the second model call.
C13_ToolTurnOrdered ==
    (variant \in SqlToolVariants /\ "dispatch" \in Range(events)) =>
        /\ IsPrefix(TurnSteps, ToolTurnOrder)
        /\ pc = "done" =>
              /\ TurnSteps = ToolTurnOrder
              /\ StoredConversation # <<>>
              /\ StoredConversation[Len(StoredConversation)]
                    = AssistantMsg(second_response)

\* number of places of seq holding a member of S
RECURSIVE Count(_, _)
Count(seq, S) ==
    IF seq = <<>> THEN 0
    ELSE (IF seq[1] \in S THEN 1 ELSE 0) + Count(SubSeq(seq, 2, Len(seq)), S)

ModelCalls == Count(events, {"call1_tools", "call1_plain", "call2_plain"})

ToolDispatches == Count(events, {"dispatch"})

\* a turn is under way
InTurn == ~Idle

\* how far a turn has come
Rank(p) ==
    CASE p = "call1" -> 1
      [] p = "got1" -> 2
      [] p = "run2" -> 3
      [] p = "call2" -> 4
      [] OTHER -> 5

\* the turn has made at most two model calls and one tool dispatch, nothing
\* follows an exception that ended it, and no dispatch follows the second call
TurnBounded ==
    /\ ModelCalls <= 2
    /\ ToolDispatches <= 1
    /\ \A i \in 1..Len(events) :
          /\ events[i] = "raise" => (i = Len(events) /\ pc = "failed")
          /\ events[i] = "call2_plain" =>
                \A j \in i+1..Len(events) : events[j] # "dispatch"
                                            /\ events[j] # "call2_plain"
          /\ events[i] \in {"call1_tools", "call1_plain"} =>
                \A j \in i+1..Len(events) :
                    events[j] \notin {"call1_tools", "call1_plain"}

\* a step of a turn under way brings the turn strictly nearer to its end
TurnStep ==
    /\ TurnBounded
    /\ TurnBounded'
    /\ InTurn => Rank(pc') > Rank(pc)

\* C14: every step of a turn under way moves the turn forward towards DONE
\* or failure, so a turn ends after at most four steps; it makes at most two
\* model calls and at most one tool dispatch, an exception ends it with no
\* further call or dispatch, and nothing is dispatched after the second call.
C14_TurnBoundedAndProgressing == [][TurnStep]_vars

\* C14 witness: a turn whose tool dispatch failed in the data store has ended
\* after two model calls and that one dispatch
C14_Witness ==
    /\ variant \in {"app_3", "app_4"}
    /\ pc = "done"
    /\ "db_raise" \in Range(events)
    /\ ModelCalls = 2
    /\ ToolDispatches = 1

====
